---- MODULE Spec2Model ----
(***************************************************************************)
(* The interactive annotation state machine of AudioAnnotator              *)
(* (src/audio_annotator.py) together with the geometry of Annotation       *)
(* (src/annotation.py).                                                    *)
(*                                                                         *)
(* Coordinates.  All data-space values (annotation bounds, pointer         *)
(* coordinates, viewport limits) are integers counted in ticks, one sample *)
(* being Unit ticks.  A scroll multiplies a length by 0.15 = 3/20, so with *)
(* Unit = 20^MaxAdjustments the arithmetic of that many scrolls is         *)
(* exact.  A pointer event carries the data coordinate x of its pixel      *)
(* column and a flag telling whether the pointer is inside the plotted     *)
(* axis (event.xdata = x) or outside it (event.xdata = None); pixel        *)
(* distances are obtained from data distances by the axis transform.       *)
(***************************************************************************)
EXTENDS Integers, Sequences, FiniteSets, TLC

\* ------------------------------------------------------------------------
\* Program constants
\* ------------------------------------------------------------------------
MOUSE_BUTTON_LEFT == 1
MOUSE_BUTTON_RIGHT == 3
MINIMUM_NEW_AREA_WIDTH_PIXELS == 5
ARROW_STEP_SIZE == 50
DEFAULT_EDGE_GRAB_MARGIN == 5
\* ZOOM_STEP_SCALE = 0.15 as the fraction ZoomScaleNum / ZoomScaleDen
ZoomScaleNum == 3
ZoomScaleDen == 20
\* width in pixels of the top axis: figsize (16, 8) inches at 100 dpi, of which
\* a subplot spans the fraction 0.775
AxisWidthPixels == 1240

\* ------------------------------------------------------------------------
\* Bounds of the model
\* ------------------------------------------------------------------------
\* number of samples of the annotated signal (signal.size)
SignalSize == 20000
\* annotations that may exist at once
MaxAnnotations == 2
\* scroll events applied to the viewport plus shift+arrow key presses that
\* moved an annotation, in one behaviour
MaxAdjustments == 1
\* button presses plus scroll events applied to the viewport, in one behaviour
MaxPresses == 3
\* a pointer off the axes stands 1/MarginDen of the axes' width to their right,
\* inside the figure's right margin (0.1 of the figure's width)
MarginDen == 20
\* columns an edge of an annotation may be at when a removal is called
MaxEdges == 6

Unit == ZoomScaleDen ^ MaxAdjustments
\* pointer columns of the events, in samples
PointerSamples == {2000, 4000, 8000, 16000}
Pointers == {s * Unit : s \in PointerSamples}
Buttons == {MOUSE_BUTTON_LEFT, MOUSE_BUTTON_RIGHT}
\* event.step of a scroll event: one notch either way, or a burst of notches
Steps == {-1, 1, 7}
Keys == {"shift+left", "shift+right", "delete", "space"}

VARIABLES
    state,              \* self.state
    annotations,        \* self.annotations
    mouse_left_down,    \* self.mouse_left_down
    mouse_right_down,   \* self.mouse_right_down
    view,               \* self.top_axis.viewLim: [x0, x1]
    panning_mouse_x,    \* self.panning_mouse_x
    current_zoom,       \* self.current_zoom
    raised,             \* exception that ended the last handler, or "none"
    rejected,           \* the last handler removed a too narrow new area
    scrolls,            \* scroll events applied so far
    nudges,             \* shift+arrow presses applied so far
    presses             \* button presses so far

vars == <<state, annotations, mouse_left_down, mouse_right_down, view,
          panning_mouse_x, current_zoom, raised, rejected, scrolls, nudges,
          presses>>

GUIState == {"IDLE", "NEW_AREA", "MOVING_AREA", "MOVING_EDGE", "PANNING"}

\* ------------------------------------------------------------------------
\* Helpers
\* ------------------------------------------------------------------------
Abs(n) == IF n < 0 THEN -n ELSE n
Min2(a, b) == IF a < b THEN a ELSE b
Max2(a, b) == IF a < b THEN b ELSE a

data_x_min == 0
data_x_max == (SignalSize - 1) * Unit

\* top_axis.viewLim.x0 and top_axis.viewLim.xmax
viewLim_x0 == view.x0
viewLim_xmax == Max2(view.x0, view.x1)

\* The axes library expands singular limits and draws inverted ones mirrored;
\* the handlers are modelled for a window of positive width only.
ViewRegular == view.x0 < view.x1

\* A data distance d is shown as fewer than k pixels in the current window:
\* d * AxisWidthPixels / (x1 - x0) < k, that is d * AxisWidthPixels <= k * (x1 - x0) - 1
PixelsLess(d, k) == Abs(d) <= (k * (view.x1 - view.x0) - 1) \div AxisWidthPixels

\* event.xdata is not None only for a pointer inside the plotted window
InAxes(x) == view.x0 <= x /\ x <= view.x1

\* numpy.round of a data value, in samples (round half to even)
np_round(t) ==
    LET q == t \div Unit
        r == t % Unit
    IN  IF 2 * r < Unit THEN q
        ELSE IF 2 * r > Unit THEN q + 1
        ELSE IF q % 2 = 0 THEN q ELSE q + 1

\* data_x[i] of a numpy array of SignalSize elements raises IndexError
IndexRaises(i) == i < -SignalSize \/ i >= SignalSize

\* _update_bottom_axis(round(x_min), round(x_max)) raises IndexError
update_bottom_axis_raises(a) ==
    \/ IndexRaises(np_round(a.x_min))
    \/ IndexRaises(np_round(a.x_max) - 1)

\* ------------------------------------------------------------------------
\* Annotation
\* ------------------------------------------------------------------------
Annotation(x) ==
    [x_min |-> x, x_max |-> x,
     active |-> FALSE, selected |-> FALSE,
     left_edge_hovering |-> FALSE, right_edge_hovering |-> FALSE,
     left_edge_active |-> FALSE, right_edge_active |-> FALSE,
     mouse_offset_x_min |-> 0]

activate(a, x) ==
    [a EXCEPT !.mouse_offset_x_min = a.x_min - x,
              !.selected = TRUE, !.active = TRUE]

\* a deselect that clears active only, as deactivate does
deselect_keeps_selected(a) == [a EXCEPT !.active = FALSE]

deselect(a) == [a EXCEPT !.active = FALSE, !.selected = FALSE]

\* the rectangle's extents are the smaller and the larger of its two bounds
update_hovering(a, x) ==
    [a EXCEPT
        !.left_edge_hovering =
            PixelsLess(Min2(a.x_min, a.x_max) - x, DEFAULT_EDGE_GRAB_MARGIN),
        !.right_edge_hovering =
            PixelsLess(Max2(a.x_min, a.x_max) - x, DEFAULT_EDGE_GRAB_MARGIN)]

update_activated_edges(a) ==
    [a EXCEPT !.left_edge_active = a.left_edge_active \/ a.left_edge_hovering,
              !.right_edge_active = a.right_edge_active \/ a.right_edge_hovering]

is_edge_hovering(a) == a.left_edge_hovering \/ a.right_edge_hovering

\* is_hovering(x, y = 0) of an annotation with y_min = -1 and y_max = 2
is_hovering(a, x) == a.x_min <= x /\ x <= a.x_max

\* a normalisation that forgets the swap
fix_min_and_max_noswap(a) == a

fix_min_and_max(a) ==
    IF a.x_max < a.x_min
    THEN [a EXCEPT !.x_min = a.x_max, !.x_max = a.x_min]
    ELSE a

\* a body move that puts x_min under the pointer, forgetting the grab offset
move_x_range_no_offset(a, new_x_min) ==
    LET width == a.x_max - a.x_min
    IN  [a EXCEPT !.x_min = new_x_min, !.x_max = new_x_min + width]

move_x_range(a, new_x_min) ==
    LET width == a.x_max - a.x_min
        nx == new_x_min + a.mouse_offset_x_min
    IN  [a EXCEPT !.x_min = nx, !.x_max = nx + width]

\* a nudge that moves the left bound only
increment_x_min_only(a, delta_x) ==
    [a EXCEPT !.x_min = a.x_min + delta_x]

increment_x(a, delta_x) ==
    [a EXCEPT !.x_min = a.x_min + delta_x, !.x_max = a.x_max + delta_x]

\* a release that disarms the left edge only
deactivate_edges_left_only(a) ==
    [a EXCEPT !.left_edge_active = FALSE]

deactivate_edges(a) ==
    [a EXCEPT !.left_edge_active = FALSE, !.right_edge_active = FALSE]

\* ------------------------------------------------------------------------
\* The collection
\* ------------------------------------------------------------------------
RemoveAt(s, i) == SubSeq(s, 1, i - 1) \o SubSeq(s, i + 1, Len(s))

\* list.sort(key = x_min): stable
RECURSIVE InsertSorted(_, _)
InsertSorted(s, a) ==
    IF s = << >> THEN <<a>>
    ELSE IF a.x_min < s[1].x_min THEN <<a>> \o s
    ELSE <<s[1]>> \o InsertSorted(Tail(s), a)

RECURSIVE sort_areas(_)
sort_areas(s) ==
    IF s = << >> THEN << >>
    ELSE InsertSorted(sort_areas(SubSeq(s, 1, Len(s) - 1)), s[Len(s)])

\* ------------------------------------------------------------------------
\* on_press
\* ------------------------------------------------------------------------
\* The event source presses a button that is up and releases one that is down;
\* the two flags are set by every press and cleared by every release of their
\* button, so they tell which buttons are held.
ButtonDown(button) ==
    IF button = MOUSE_BUTTON_LEFT THEN mouse_left_down ELSE mouse_right_down

\* The scan of the annotations in a primary press (lines 153-172), from list
\* index i on, with st the GUI state so far.  An IndexError of the bottom-axis
\* update ends the handler inside the scan.
RECURSIVE press_scan(_, _, _, _)
press_scan(anns, i, st, x) ==
    IF i > Len(anns) THEN [anns |-> anns, st |-> st, raised |-> "none"]
    ELSE
        LET a1 == update_activated_edges(anns[i])
            edge == is_edge_hovering(a1)
            a2 == IF edge THEN activate(a1, x) ELSE a1
            st2 == IF edge THEN "MOVING_EDGE" ELSE st
            body == st2 = "IDLE" /\ is_hovering(a2, x)
            a3 == IF body THEN activate(a2, x) ELSE a2
            st3 == IF body THEN "MOVING_AREA" ELSE st2
            anns3 == [anns EXCEPT ![i] = a3]
        IN  IF body /\ update_bottom_axis_raises(a3)
            THEN [anns |-> anns3, st |-> st3, raised |-> "IndexError"]
            ELSE press_scan(anns3, i + 1, st3, x)

\* lines 174-183: the new zero-width area, appended and sorted in
new_area(anns, x) ==
    sort_areas(Append(anns, [activate(Annotation(x), x)
                                EXCEPT !.right_edge_active = TRUE]))

on_press(button, x, present) ==
    LET left == mouse_left_down \/ button = MOUSE_BUTTON_LEFT
        right == mouse_right_down \/ button = MOUSE_BUTTON_RIGHT
        deselected == [i \in 1..Len(annotations) |-> deselect(annotations[i])]
        primary == state = "IDLE" /\ left /\ present
        scan == press_scan(deselected, 1, "IDLE", x)
        create == primary /\ scan.raised = "none" /\ scan.st = "IDLE"
        st1 == IF ~primary THEN state
               ELSE IF create THEN "NEW_AREA" ELSE scan.st
        err == IF primary THEN scan.raised ELSE "none"
        pan == err = "none" /\ st1 = "IDLE" /\ right /\ present
    IN  /\ ViewRegular
        /\ ~ButtonDown(button)
        /\ presses + scrolls < MaxPresses
        /\ presses' = presses + 1
        /\ present => InAxes(x)
        /\ create => Len(annotations) < MaxAnnotations
        /\ mouse_left_down' = left
        /\ mouse_right_down' = right
        /\ annotations' = IF ~primary THEN deselected
                          ELSE IF create THEN new_area(scan.anns, x)
                          ELSE scan.anns
        /\ state' = IF pan THEN "PANNING" ELSE st1
        /\ panning_mouse_x' = IF pan THEN x ELSE panning_mouse_x
        /\ raised' = err
        /\ rejected' = FALSE
        /\ UNCHANGED <<view, current_zoom, scrolls, nudges>>

\* ------------------------------------------------------------------------
\* on_move
\* ------------------------------------------------------------------------
\* an edge drag that forgets the clamp against the next annotation
RECURSIVE move_edges_no_next_clamp(_, _, _)
move_edges_no_next_clamp(anns, i, x) ==
    IF i > Len(anns) THEN anns
    ELSE IF ~anns[i].active THEN move_edges_no_next_clamp(anns, i + 1, x)
    ELSE
        LET a == anns[i]
            valid_mouse_x == IF i > 1 /\ x < anns[i - 1].x_max
                             THEN anns[i - 1].x_max ELSE x
            b == IF a.left_edge_active THEN [a EXCEPT !.x_min = valid_mouse_x] ELSE a
            c == IF a.right_edge_active THEN [b EXCEPT !.x_max = valid_mouse_x] ELSE b
        IN  move_edges_no_next_clamp([anns EXCEPT ![i] = c], i + 1, x)

\* lines 226-251: the neighbor clamp of every active annotation, in list order
RECURSIVE move_edges(_, _, _)
move_edges(anns, i, x) ==
    IF i > Len(anns) THEN anns
    ELSE IF ~anns[i].active THEN move_edges(anns, i + 1, x)
    ELSE
        LET a == anns[i]
            has_previous == i > 1
            has_next == i < Len(anns)
            v1 == IF has_previous /\ x < anns[i - 1].x_max
                  THEN anns[i - 1].x_max ELSE x
            valid_mouse_x == IF has_next /\ x > anns[i + 1].x_min
                             THEN anns[i + 1].x_min ELSE v1
            b == IF a.left_edge_active THEN [a EXCEPT !.x_min = valid_mouse_x] ELSE a
            c == IF a.right_edge_active THEN [b EXCEPT !.x_max = valid_mouse_x] ELSE b
        IN  move_edges([anns EXCEPT ![i] = c], i + 1, x)

\* a pan that moves the window as far as the data range allows
pan_view_partial(x) ==
    LET delta == panning_mouse_x - x
        width == viewLim_xmax - viewLim_x0
        x_min == Max2(data_x_min, Min2(viewLim_x0 + delta, data_x_max - width))
    IN  [x0 |-> x_min, x1 |-> x_min + width]

\* lines 211-217: the pan of the window
pan_view(x) ==
    LET delta == panning_mouse_x - x
        x_min == viewLim_x0 + delta
        x_max == viewLim_xmax + delta
    IN  IF x_min >= data_x_min /\ x_max <= data_x_max
        THEN [x0 |-> x_min, x1 |-> x_max]
        ELSE view

\* a pointer move whose pan carries every annotation along with the window
on_move_pan_carries_annotations(x, present) ==
    LET hovered == [i \in 1..Len(annotations) |-> update_hovering(annotations[i], x)]
        any_active == \E i \in 1..Len(hovered) : hovered[i].active
        type_error == state = "MOVING_AREA" /\ any_active /\ ~present
        shift == pan_view(x).x0 - view.x0
    IN  /\ ViewRegular
        /\ present => InAxes(x)
        /\ view' = IF state = "PANNING" /\ present THEN pan_view(x) ELSE view
        /\ annotations' =
             IF state \in {"MOVING_EDGE", "NEW_AREA"} /\ present
             THEN move_edges(hovered, 1, x)
             ELSE IF state = "MOVING_AREA" /\ present
             THEN [i \in 1..Len(hovered) |->
                     IF hovered[i].active THEN move_x_range(hovered[i], x)
                     ELSE hovered[i]]
             ELSE IF state = "PANNING" /\ present
             THEN [i \in 1..Len(hovered) |-> increment_x(hovered[i], shift)]
             ELSE hovered
        /\ raised' = IF type_error THEN "TypeError" ELSE "none"
        /\ rejected' = FALSE
        /\ UNCHANGED <<state, mouse_left_down, mouse_right_down, panning_mouse_x,
                       current_zoom, scrolls, nudges, presses>>

on_move(x, present) ==
    LET hovered == [i \in 1..Len(annotations) |-> update_hovering(annotations[i], x)]
        any_active == \E i \in 1..Len(hovered) : hovered[i].active
        type_error == state = "MOVING_AREA" /\ any_active /\ ~present
    IN  /\ ViewRegular
        /\ present => InAxes(x)
        /\ view' = IF state = "PANNING" /\ present THEN pan_view(x) ELSE view
        /\ annotations' =
             IF state \in {"MOVING_EDGE", "NEW_AREA"} /\ present
             THEN move_edges(hovered, 1, x)
             ELSE IF state = "MOVING_AREA" /\ present
             THEN [i \in 1..Len(hovered) |->
                     IF hovered[i].active THEN move_x_range(hovered[i], x)
                     ELSE hovered[i]]
             ELSE hovered
        /\ raised' = IF type_error THEN "TypeError" ELSE "none"
        /\ rejected' = FALSE
        /\ UNCHANGED <<state, mouse_left_down, mouse_right_down, panning_mouse_x,
                       current_zoom, scrolls, nudges, presses>>

\* ------------------------------------------------------------------------
\* on_release
\* ------------------------------------------------------------------------
\* a release that keeps the new area however narrow it is
RECURSIVE release_scan_keep_narrow(_, _, _)
release_scan_keep_narrow(anns, i, rej) ==
    IF i > Len(anns) THEN [anns |-> anns, raised |-> "none", rejected |-> rej]
    ELSE IF ~anns[i].active THEN release_scan_keep_narrow(anns, i + 1, rej)
    ELSE
        LET a == IF state \in {"NEW_AREA", "MOVING_EDGE"}
                 THEN fix_min_and_max(anns[i]) ELSE anns[i]
            anns2 == [anns EXCEPT ![i] = a]
        IN  IF /\ state \in {"NEW_AREA", "MOVING_EDGE", "MOVING_AREA"}
               /\ update_bottom_axis_raises(a)
            THEN [anns |-> anns2, raised |-> "IndexError", rejected |-> rej]
            ELSE release_scan_keep_narrow(anns2, i + 1, rej)

\* lines 271-292: the loop over the list, whose iterator position i is kept
\* when an element is removed from the list under it.
RECURSIVE release_scan(_, _, _)
release_scan(anns, i, rej) ==
    IF i > Len(anns) THEN [anns |-> anns, raised |-> "none", rejected |-> rej]
    ELSE IF ~anns[i].active THEN release_scan(anns, i + 1, rej)
    ELSE
        LET a == IF state \in {"NEW_AREA", "MOVING_EDGE"}
                 THEN fix_min_and_max(anns[i]) ELSE anns[i]
            narrow == /\ state = "NEW_AREA"
                      /\ PixelsLess(a.x_max - a.x_min, MINIMUM_NEW_AREA_WIDTH_PIXELS)
            anns2 == IF narrow THEN RemoveAt(anns, i) ELSE [anns EXCEPT ![i] = a]
        IN  IF /\ state \in {"NEW_AREA", "MOVING_EDGE", "MOVING_AREA"}
               /\ update_bottom_axis_raises(a)
            THEN [anns |-> anns2, raised |-> "IndexError", rejected |-> rej \/ narrow]
            ELSE release_scan(anns2, i + 1, rej \/ narrow)

on_release(button) ==
    LET scan == release_scan(annotations, 1, FALSE)
        ok == scan.raised = "none"
    IN  /\ ViewRegular
        /\ ButtonDown(button)
        /\ mouse_left_down' = (mouse_left_down /\ button # MOUSE_BUTTON_LEFT)
        /\ mouse_right_down' = (mouse_right_down /\ button # MOUSE_BUTTON_RIGHT)
        /\ annotations' =
             IF ok
             THEN sort_areas([i \in 1..Len(scan.anns) |-> deactivate_edges(scan.anns[i])])
             ELSE scan.anns
        /\ state' = IF ok THEN "IDLE" ELSE state
        /\ raised' = scan.raised
        /\ rejected' = scan.rejected
        /\ UNCHANGED <<view, panning_mouse_x, current_zoom, scrolls, nudges, presses>>

\* ------------------------------------------------------------------------
\* on_scroll
\* ------------------------------------------------------------------------
\* a zoom whose direction is reversed
zoom_shift_reversed(step, d) == -((d \div ZoomScaleDen) * ZoomScaleNum * step)

\* step * ZOOM_STEP_SCALE * d, exact for the multiples of ZoomScaleDen
zoom_shift(step, d) == (d \div ZoomScaleDen) * ZoomScaleNum * step

\* a zoom that is applied only while no gesture is in progress
zoom_view_idle_only(step, x) ==
    LET x_min == viewLim_x0 + zoom_shift(step, x - viewLim_x0)
        x_max == viewLim_xmax - zoom_shift(step, viewLim_xmax - x)
    IN  IF state # "IDLE" THEN view
        ELSE [x0 |-> IF x_min > data_x_min THEN x_min ELSE data_x_min,
              x1 |-> IF x_max < data_x_max THEN x_max ELSE data_x_max]

zoom_view(step, x) ==
    LET x_min == viewLim_x0 + zoom_shift(step, x - viewLim_x0)
        x_max == viewLim_xmax - zoom_shift(step, viewLim_xmax - x)
    IN  [x0 |-> IF x_min > data_x_min THEN x_min ELSE data_x_min,
         x1 |-> IF x_max < data_x_max THEN x_max ELSE data_x_max]

\* a scroll that cancels the gesture in progress
on_scroll_ends_gesture(step, x, present) ==
    /\ ViewRegular
    /\ present => /\ InAxes(x)
                  /\ scrolls + nudges < MaxAdjustments
                  /\ presses + scrolls < MaxPresses
    /\ view' = IF present THEN zoom_view(step, x) ELSE view
    /\ current_zoom' = IF present THEN current_zoom + step ELSE current_zoom
    /\ scrolls' = IF present THEN scrolls + 1 ELSE scrolls
    /\ state' = "IDLE"
    /\ raised' = "none"
    /\ rejected' = FALSE
    /\ UNCHANGED <<annotations, mouse_left_down, mouse_right_down,
                   panning_mouse_x, nudges, presses>>

on_scroll(step, x, present) ==
    /\ ViewRegular
    /\ present => /\ InAxes(x)
                  /\ scrolls + nudges < MaxAdjustments
                  /\ presses + scrolls < MaxPresses
    /\ view' = IF present THEN zoom_view(step, x) ELSE view
    /\ current_zoom' = IF present THEN current_zoom + step ELSE current_zoom
    /\ scrolls' = IF present THEN scrolls + 1 ELSE scrolls
    /\ raised' = "none"
    /\ rejected' = FALSE
    /\ UNCHANGED <<state, annotations, mouse_left_down, mouse_right_down,
                   panning_mouse_x, nudges, presses>>

\* ------------------------------------------------------------------------
\* on_key_press
\* ------------------------------------------------------------------------
\* lines 333-353: the loop over the list; 'delete' removes the element under
\* the iterator, whose position i is kept.
RECURSIVE key_scan(_, _, _)
key_scan(anns, i, key) ==
    IF i > Len(anns) THEN anns
    ELSE IF ~anns[i].active THEN key_scan(anns, i + 1, key)
    ELSE IF key = "shift+left"
    THEN key_scan([anns EXCEPT ![i] = increment_x(anns[i], -ARROW_STEP_SIZE * Unit)], i + 1, key)
    ELSE IF key = "shift+right"
    THEN key_scan([anns EXCEPT ![i] = increment_x(anns[i], ARROW_STEP_SIZE * Unit)], i + 1, key)
    ELSE IF key = "delete"
    THEN key_scan(RemoveAt(anns, i), i + 1, key)
    ELSE key_scan(anns, i + 1, key)

on_key_press(key) ==
    LET nudge == /\ key \in {"shift+left", "shift+right"}
                 /\ \E i \in 1..Len(annotations) : annotations[i].active
    IN  /\ ViewRegular
        /\ nudge => scrolls + nudges < MaxAdjustments
        /\ annotations' = key_scan(annotations, 1, key)
        /\ nudges' = IF nudge THEN nudges + 1 ELSE nudges
        /\ raised' = "none"
        /\ rejected' = FALSE
        /\ UNCHANGED <<state, mouse_left_down, mouse_right_down, view,
                       panning_mouse_x, current_zoom, scrolls, presses>>

\* ------------------------------------------------------------------------
\* Specification
\* ------------------------------------------------------------------------
\* the state in which annotate() starts the event loop
Init ==
    /\ state = "IDLE"
    /\ annotations = << >>
    /\ mouse_left_down = FALSE
    /\ mouse_right_down = FALSE
    /\ view = [x0 |-> data_x_min, x1 |-> data_x_max]
    /\ panning_mouse_x = 0
    /\ current_zoom = 1
    /\ raised = "none"
    /\ rejected = FALSE
    /\ scrolls = 0
    /\ nudges = 0
    /\ presses = 0

\* An event has no data coordinate (event.xdata is None) when the pointer is
\* off the axes: here in the right margin of the figure, at the column
\* MarginColumn of the axes' pixel-to-data transform.  A press and a scroll
\* without a data coordinate read neither the column nor the step; a
\* pointer-move reads the pixel column for the hover flags.
MarginColumn == view.x1 + (view.x1 - view.x0) \div MarginDen
Press ==
    \E b \in Buttons :
        \/ \E x \in Pointers : on_press(b, x, TRUE)
        \/ on_press(b, MarginColumn, FALSE)
Move ==
    \/ \E x \in Pointers : on_move(x, TRUE)
    \/ on_move(MarginColumn, FALSE)
Release == \E b \in Buttons : on_release(b)
Scroll ==
    \/ \E s \in Steps, x \in Pointers : on_scroll(s, x, TRUE)
    \/ on_scroll(0, MarginColumn, FALSE)
KeyPress == \E k \in Keys : on_key_press(k)

Next == Press \/ Move \/ Release \/ Scroll \/ KeyPress

Spec == Init /\ [][Next]_vars

TypeOK ==
    /\ state \in GUIState
    /\ Len(annotations) <= MaxAnnotations
    /\ raised \in {"none", "TypeError", "IndexError", "ValueError"}

\* ------------------------------------------------------------------------
\* _remove_areas
\* ------------------------------------------------------------------------
\* The argument is a list of annotation objects.  An object is named by the
\* position it has in the collection when the call starts, and by 0 when it
\* is not in the collection; gone is the set of positions already removed by
\* the call.  list.remove raises ValueError for an object that is not in the
\* list, and what the call removed before stays removed.
RECURSIVE remove_areas(_, _, _)
remove_areas(anns, refs, gone) ==
    IF refs = << >> THEN [anns |-> anns, raised |-> "none"]
    ELSE
        LET r == Head(refs)
            before == Cardinality({j \in gone : j < r})
        IN  IF r = 0 \/ r \in gone
            THEN [anns |-> anns, raised |-> "ValueError"]
            ELSE remove_areas(RemoveAt(anns, r - before), Tail(refs), gone \cup {r})

\* the argument lists: one object, or the same or two objects in a row
RemoveArgs ==
    LET refs == 0..Len(annotations)
    IN  {<<r>> : r \in refs} \cup {<<r, q>> : r \in refs, q \in refs}

RemoveAreas(refs) ==
    LET out == remove_areas(annotations, refs, {})
    IN  /\ annotations' = out.anns
        /\ raised' = out.raised
        /\ UNCHANGED <<state, mouse_left_down, mouse_right_down, view,
                       panning_mouse_x, current_zoom, rejected, scrolls,
                       nudges, presses>>

\* the edges of the annotations a collection starts with
InitialEdges == {2000 * k * Unit : k \in 1..MaxEdges}

\* an annotation as a creation gesture from a to b leaves it
Created(a, b, act) ==
    [Annotation(a) EXCEPT !.x_max = b, !.active = act, !.selected = act]

\* the collections of at most MaxAnnotations annotations, sorted, one after
\* the other, at most one of them active
InitialCollections ==
    LET ranges == {e \in InitialEdges \X InitialEdges : e[1] < e[2]}
        one == {<<Created(e[1], e[2], act)>> : e \in ranges, act \in BOOLEAN}
        two == {s \o t : s \in one, t \in one}
    IN  {<< >>} \cup one
          \cup {c \in two : /\ MaxAnnotations >= 2
                             /\ c[1].x_max <= c[2].x_min
                             /\ ~(c[1].active /\ c[2].active)}

InitRemove ==
    /\ state = "IDLE"
    /\ annotations \in InitialCollections
    /\ mouse_left_down = FALSE
    /\ mouse_right_down = FALSE
    /\ view = [x0 |-> data_x_min, x1 |-> data_x_max]
    /\ panning_mouse_x = 0
    /\ current_zoom = 1
    /\ raised = "none"
    /\ rejected = FALSE
    /\ scrolls = 0
    /\ nudges = 0
    /\ presses = 0

NextRemove == \E refs \in RemoveArgs : RemoveAreas(refs)

RemoveSpec == InitRemove /\ [][NextRemove]_vars

\* ------------------------------------------------------------------------
\* annotate / build_annotation_blueprint
\* ------------------------------------------------------------------------
\* every annotation the press handler creates carries the label 'debug', and
\* no handler calls set_label
label(a) == "debug"

\* lines 364-373: the loop over the annotations is commented out
build_annotation_blueprint == [labels |-> << >>]

\* what annotate returns when the window is closed, in whatever state the
\* session is then
annotate == build_annotation_blueprint

\* ------------------------------------------------------------------------
\* Properties
\* ------------------------------------------------------------------------
\* Steps told apart by the counters and flags they change: only a press counts
\* in presses, only a release clears a button flag, and a pointer-move changes
\* none of the counters and flags.
PressStep == presses' # presses /\ Press
ReleaseStep ==
    /\ (mouse_left_down /\ ~mouse_left_down') \/ (mouse_right_down /\ ~mouse_right_down')
    /\ Release
MoveFrame ==
    UNCHANGED <<state, mouse_left_down, mouse_right_down, presses, scrolls, nudges>>
MoveStep(x, present) == MoveFrame /\ on_move(x, present)

Indices == 1..Len(annotations)
ActiveIndices == {i \in Indices : annotations[i].active}
Bounds(s) == [i \in 1..Len(s) |-> <<s[i].x_min, s[i].x_max>>]
Sample(n) == n * Unit

\* sorted by x_min, every annotation ends before the next one starts
NonOverlap ==
    LET t == sort_areas(annotations)
    IN  \A i \in 1..(Len(t) - 1) : t[i].x_max <= t[i + 1].x_min

BoundsOrdered == \A i \in Indices : annotations[i].x_min <= annotations[i].x_max

\* C1: in every state reached by a button release, the annotations sorted by
\* x_min satisfy annotation[i].x_max <= annotation[i+1].x_min.
C1_NonOverlapAfterRelease == [][ReleaseStep => NonOverlap']_vars

\* C2: after every button release, every annotation has x_min <= x_max.
C2_BoundsAfterRelease == [][ReleaseStep => BoundsOrdered']_vars

\* C3: after any pan and zoom, data_x_min <= x_min < x_max <= data_x_max holds
\* of the viewport.
C3_ViewportInvariant ==
    /\ data_x_min <= view.x0
    /\ view.x0 < view.x1
    /\ view.x1 <= data_x_max

\* C4: while the GUI state is NewArea, MovingArea or MovingEdge, at most one
\* annotation is active.
C4_AtMostOneActive ==
    state \in {"NEW_AREA", "MOVING_AREA", "MOVING_EDGE"}
        => Cardinality(ActiveIndices) <= 1

\* C5: every button release, of either button and in any state, leaves the
\* machine in Idle.
C5_ReleaseReturnsToIdle == [][ReleaseStep => state' = "IDLE"]_vars

\* C9: after the release of a MovingEdge gesture no annotation resized in it
\* (active at the release) is left with a pixel width below the minimum.
C9_NarrowEdgeRemoved ==
    [][state = "MOVING_EDGE" /\ ReleaseStep
         => \A i \in 1..Len(annotations') :
              annotations'[i].active
                => ~PixelsLess(annotations'[i].x_max - annotations'[i].x_min,
                               MINIMUM_NEW_AREA_WIDTH_PIXELS)]_vars

\* an event whose data coordinate is None
AbsentEvent ==
    \/ presses' # presses /\ \E b \in Buttons : on_press(b, MarginColumn, FALSE)
    \/ MoveStep(MarginColumn, FALSE)
    \/ /\ UNCHANGED <<state, annotations, presses, scrolls>>
       /\ on_scroll(0, MarginColumn, FALSE)

\* C10: an event of any kind whose data coordinate is None, in any GUI state,
\* raises no error and leaves every annotation's bounds and the viewport
\* unchanged.
C10_AbsentCoordinateNoOp ==
    [][AbsentEvent
         => /\ raised' = "none"
            /\ Bounds(annotations') = Bounds(annotations)
            /\ view' = view]_vars

\* the bounds pair p occurs as often in s as in t
SameBounds(s, t) ==
    /\ Len(s) = Len(t)
    /\ \A i \in 1..Len(s) :
         Cardinality({j \in 1..Len(s) : Bounds(s)[j] = Bounds(s)[i]})
           = Cardinality({j \in 1..Len(t) : Bounds(t)[j] = Bounds(s)[i]})

Narrow(a) == PixelsLess(a.x_max - a.x_min, MINIMUM_NEW_AREA_WIDTH_PIXELS)

\* the value the edge of the annotation at index i takes for pointer x: x, or
\* the next annotation's x_min when x lies above it, or else the previous
\* annotation's x_max when x lies below it; the previous annotation has been
\* handled before i in the same event, the next one has not
ClampTarget(i, x) ==
    IF i < Len(annotations) /\ x > annotations[i + 1].x_min
    THEN annotations[i + 1].x_min
    ELSE IF i > 1 /\ x < annotations'[i - 1].x_max
    THEN annotations'[i - 1].x_max
    ELSE x

\* C6: a pointer-move at x in MovingEdge or NewArea sets the active edges of
\* every active annotation to x clamped to the previous annotation's x_max and
\* the next annotation's x_min, with no clamp on a side without a neighbor, and
\* moves nothing else.
C6_NeighborClamp ==
    [][(state \in {"MOVING_EDGE", "NEW_AREA"} /\ MoveFrame)
         => \A x \in Pointers :
              on_move(x, TRUE)
                => /\ Len(annotations') = Len(annotations)
                   /\ \A i \in Indices :
                        LET a == annotations[i]
                            n == annotations'[i]
                        IN  /\ n.x_min = IF a.active /\ a.left_edge_active
                                         THEN ClampTarget(i, x) ELSE a.x_min
                            /\ n.x_max = IF a.active /\ a.right_edge_active
                                         THEN ClampTarget(i, x) ELSE a.x_max]_vars

\* the pointer stands at 16000 over the right edge of [8000, 16000] while the
\* dragged right edge of the annotation before it stopped at 8000
C6_Witness ==
    /\ state = "MOVING_EDGE"
    /\ Len(annotations) = 2
    /\ ActiveIndices = {1}
    /\ annotations[1].right_edge_active /\ ~annotations[1].left_edge_active
    /\ Bounds(annotations) = << <<Sample(2000), Sample(8000)>>,
                                <<Sample(8000), Sample(16000)>> >>
    /\ annotations[2].right_edge_hovering /\ ~annotations[2].left_edge_hovering

\* C7: on an empty collection in Idle a primary press at a makes the one
\* annotation [a, a]; every pointer-move at b in that gesture makes it [a, b];
\* the release of an annotation at least the minimum width wide leaves exactly
\* the one annotation [min(a, b), max(a, b)].
C7_CreateGesture ==
    [][/\ (state = "IDLE" /\ annotations = << >> /\ presses' # presses)
              => \A x \in Pointers :
                   on_press(MOUSE_BUTTON_LEFT, x, TRUE)
                     => /\ state' = "NEW_AREA"
                        /\ Bounds(annotations') = << <<x, x>> >>
                        /\ annotations'[1].active
       /\ (state = "NEW_AREA" /\ Len(annotations) = 1 /\ annotations[1].active
                 /\ MoveFrame)
              => \A x \in Pointers :
                   on_move(x, TRUE)
                     => /\ Bounds(annotations') = << <<annotations[1].x_min, x>> >>
                        /\ annotations'[1].active
                        /\ state' = "NEW_AREA"
       /\ (state = "NEW_AREA" /\ Len(annotations) = 1 /\ annotations[1].active
                 /\ ~Narrow(annotations[1]) /\ ReleaseStep)
              => /\ state' = "IDLE"
                 /\ Bounds(annotations') =
                      << <<Min2(annotations[1].x_min, annotations[1].x_max),
                           Max2(annotations[1].x_min, annotations[1].x_max)>> >>]_vars

\* the only gesture so far was a drag from 16000 back to 2000
C7_Witness ==
    /\ state = "IDLE"
    /\ presses = 1
    /\ ~mouse_left_down /\ ~mouse_right_down
    /\ scrolls = 0 /\ nudges = 0
    /\ Bounds(annotations) = << <<Sample(2000), Sample(16000)>> >>
    /\ annotations[1].active
    /\ annotations[1].left_edge_hovering /\ ~annotations[1].right_edge_hovering

\* C8: a press that enters NewArea adds one active annotation to the
\* collection; the pointer-moves of the gesture change no other annotation;
\* and the release of the new annotation while it is narrower than the minimum
\* width leaves the collection with the annotations it had before the press.
C8_MinimumWidthRejection ==
    [][/\ (state = "IDLE" /\ state' = "NEW_AREA" /\ PressStep)
              => \E j \in 1..Len(annotations') :
                   /\ {i \in 1..Len(annotations') : annotations'[i].active} = {j}
                   /\ SameBounds(RemoveAt(annotations', j), annotations)
       /\ (state = "NEW_AREA" /\ MoveFrame /\ Move)
              => /\ Len(annotations') = Len(annotations)
                 /\ \A i \in Indices :
                      /\ annotations'[i].active = annotations[i].active
                      /\ ~annotations[i].active
                           => Bounds(annotations')[i] = Bounds(annotations)[i]
       /\ (state = "NEW_AREA" /\ ReleaseStep)
              => \A i \in ActiveIndices :
                   Narrow(annotations[i])
                     => SameBounds(annotations', RemoveAt(annotations, i))]_vars

\* the release of a gesture of one press on the empty collection removed the
\* new area and left the collection empty
C8_Witness ==
    /\ state = "IDLE"
    /\ rejected
    /\ presses = 1
    /\ annotations = << >>
    /\ ~mouse_left_down /\ ~mouse_right_down

\* ---------------------------------------------------------------------------
\* C11: a pointer move in PANNING with a present coordinate x either shifts
\* both viewport bounds by exactly delta = panning_mouse_x - x, when the
\* shifted window lies inside [data_x_min, data_x_max], or leaves the
\* viewport as it was; the window is never clamped or partially shifted.
C11_PanAllOrNothing ==
    [][(state = "PANNING" /\ MoveFrame) =>
         \A x \in Pointers :
            on_move(x, TRUE) =>
               LET delta == panning_mouse_x - x
                   fits  == /\ view.x0 + delta >= data_x_min
                            /\ view.x1 + delta <= data_x_max
               IN  /\ fits  => /\ view'.x0 = view.x0 + delta
                               /\ view'.x1 = view.x1 + delta
                   /\ ~fits => view' = view]_vars

\* a pan has shifted a zoomed window by a whole 2000 samples
C11_Witness ==
    /\ state = "PANNING"
    /\ scrolls = 1
    /\ panning_mouse_x = Sample(4000)
    /\ view.x0 = Sample(2600)
    /\ view.x1 - view.x0 < data_x_max - data_x_min

\* ---------------------------------------------------------------------------
\* C12: a secondary-button press with a present coordinate x in IDLE leads to
\* PANNING with the pan origin x, and creates and activates no annotation,
\* whatever the primary-button flag is.
C12_SecondaryPressPans ==
    [][(state = "IDLE" /\ presses' # presses) =>
         \A x \in Pointers :
            on_press(MOUSE_BUTTON_RIGHT, x, TRUE) =>
               /\ state' = "PANNING"
               /\ panning_mouse_x' = x
               /\ Len(annotations') = Len(annotations)
               /\ \A i \in 1..Len(annotations') : ~annotations'[i].active]_vars

\* ---------------------------------------------------------------------------
\* C13: on a primary press in IDLE with a present coordinate x, the machine
\* enters MOVING_EDGE exactly when x is within the grab margin of an edge of
\* some annotation in the current viewport, and every edge the press arms is
\* an edge within the grab margin of x.
C13_EdgeGrabUsesPressPosition ==
    [][(state = "IDLE" /\ presses' # presses) =>
         \A x \in Pointers :
            on_press(MOUSE_BUTTON_LEFT, x, TRUE) =>
               LET fresh == [i \in 1..Len(annotations) |->
                               update_hovering(annotations[i], x)]
               IN  /\ state' = "MOVING_EDGE" <=>
                         \E i \in 1..Len(fresh) : is_edge_hovering(fresh[i])
                   /\ state' = "MOVING_EDGE" =>
                         \A i \in 1..Len(fresh) :
                            /\ annotations'[i].left_edge_active
                                  => fresh[i].left_edge_hovering
                            /\ annotations'[i].right_edge_active
                                  => fresh[i].right_edge_hovering]_vars

\* ---------------------------------------------------------------------------
\* C14: a primary press in IDLE at a present coordinate x that is within the
\* grab margin of no annotation edge and inside no annotation body leads to
\* NEW_AREA and adds exactly one annotation, with x_min = x_max = x, active,
\* right edge armed and left edge not armed; it is the only active annotation
\* and the collection is sorted by x_min right after the press.
C14_NewAreaPress ==
    [][(state = "IDLE" /\ presses' # presses) =>
         \A x \in Pointers :
            (/\ on_press(MOUSE_BUTTON_LEFT, x, TRUE)
             /\ \A i \in 1..Len(annotations) :
                   /\ ~is_edge_hovering(update_hovering(annotations[i], x))
                   /\ ~is_hovering(annotations[i], x))
            =>
               /\ state' = "NEW_AREA"
               /\ Len(annotations') = Len(annotations) + 1
               /\ \E k \in 1..Len(annotations') :
                     /\ annotations'[k].x_min = x
                     /\ annotations'[k].x_max = x
                     /\ annotations'[k].active
                     /\ annotations'[k].right_edge_active
                     /\ ~annotations'[k].left_edge_active
                     /\ \A j \in 1..Len(annotations') :
                           annotations'[j].active => j = k
               /\ \A j \in 1..(Len(annotations') - 1) :
                     annotations'[j].x_min <= annotations'[j + 1].x_min]_vars

\* ---------------------------------------------------------------------------
\* C15: a scroll of step 1 at a pointer coordinate p strictly inside the
\* window produces a window that is strictly narrower, still contains p and
\* lies within [data_x_min, data_x_max].
C15_ZoomInTowardPointer ==
    [][(scrolls' # scrolls) =>
         \A p \in Pointers :
            (on_scroll(1, p, TRUE) /\ view.x0 < p /\ p < view.x1) =>
               /\ view'.x1 - view'.x0 < view.x1 - view.x0
               /\ view'.x0 <= p /\ p <= view'.x1
               /\ data_x_min <= view'.x0
               /\ view'.x1 <= data_x_max]_vars

\* one zoom-in step has been applied to the full window
C15_Witness ==
    /\ scrolls = 1
    /\ current_zoom = 2
    /\ data_x_min < view.x0
    /\ view.x0 < view.x1
    /\ view.x1 < data_x_max

C17_ScrollFramed ==
    [][(scrolls' # scrolls) =>
         \A s \in Steps, x \in Pointers :
            on_scroll(s, x, TRUE) =>
               /\ view'.x0 = Max2(data_x_min,
                       view.x0 + ((x - view.x0) \div ZoomScaleDen) * ZoomScaleNum * s)
               /\ view'.x1 = Min2(data_x_max,
                       view.x1 - ((view.x1 - x) \div ZoomScaleDen) * ZoomScaleNum * s)
               /\ current_zoom' = current_zoom + s
               /\ state' = state
               /\ annotations' = annotations]_vars

\* a scroll at 16000 has been applied in the middle of a body move: the moved
\* annotation was dragged by a pointer at 2000, a column the zoomed window no
\* longer shows, and the gesture of the second press is still in progress
C17_Witness ==
    /\ state = "MOVING_AREA"
    /\ presses = 2
    /\ scrolls = 1
    /\ current_zoom = 2
    /\ view.x0 = Sample(2400)
    /\ Bounds(annotations) = << <<Sample(0), Sample(6000)>> >>
    /\ annotations[1].active

\* ---------------------------------------------------------------------------
\* C18: a press at p0 that starts a MOVING_AREA gesture on an annotation
\* [a, b] records the offset a - p0 and leaves the bounds alone; every
\* pointer move of the gesture with a present coordinate p sets the grabbed
\* (active) annotation to x_min = p + (a - p0) and x_max = x_min + (b - a);
\* and no step of the gesture changes the recorded offset or the width.
C18_OffsetPreservingMove ==
    [][/\ (state = "IDLE" /\ state' = "MOVING_AREA") =>
            \A p0 \in Pointers, b \in Buttons :
               on_press(b, p0, TRUE) =>
                  \A i \in Indices :
                     annotations'[i].active =>
                        /\ annotations'[i].mouse_offset_x_min = annotations[i].x_min - p0
                        /\ annotations'[i].x_min = annotations[i].x_min
                        /\ annotations'[i].x_max = annotations[i].x_max
       /\ (state = "MOVING_AREA" /\ MoveFrame) =>
            \A p \in Pointers :
               on_move(p, TRUE) =>
                  \A i \in ActiveIndices :
                     /\ annotations'[i].x_min = p + annotations[i].mouse_offset_x_min
                     /\ annotations'[i].x_max =
                           annotations'[i].x_min + (annotations[i].x_max - annotations[i].x_min)
       /\ (state = "MOVING_AREA" /\ state' = "MOVING_AREA"
             /\ Len(annotations') = Len(annotations)) =>
            \A i \in ActiveIndices :
               annotations'[i].active =>
                  /\ annotations'[i].mouse_offset_x_min = annotations[i].mouse_offset_x_min
                  /\ annotations'[i].x_max - annotations'[i].x_min
                        = annotations[i].x_max - annotations[i].x_min]_vars

\* the annotation [2000, 8000], grabbed at 4000 and dragged to 8000, lies at
\* [6000, 12000] with the pointer still 2000 samples right of its x_min
C18_Witness ==
    /\ state = "MOVING_AREA"
    /\ Len(annotations) = 1
    /\ annotations[1].active
    /\ annotations[1].mouse_offset_x_min = Sample(2000) - Sample(4000)
    /\ Bounds(annotations) = << <<Sample(6000), Sample(12000)>> >>

\* ---------------------------------------------------------------------------
\* C19: after a 'delete' key press every annotation that was active is gone
\* from the collection, however many were active, and the annotations that
\* were not active are all still there, unchanged and in their order.
C19_DeleteRemovesActive ==
    [][on_key_press("delete") =>
         annotations' = SelectSeq(annotations, LAMBDA a : ~a.active)]_vars

\* ---------------------------------------------------------------------------
\* C20: removing an annotation that is not in the collection raises no error
\* and leaves the collection as it is; removing the same annotation twice
\* raises no error and leaves the collection as the first removal left it.
C20_IdempotentRemoval ==
    [][/\ RemoveAreas(<<0>>) =>
            /\ raised' = "none"
            /\ annotations' = annotations
       /\ \A r \in Indices :
            RemoveAreas(<<r, r>>) =>
               /\ raised' = "none"
               /\ annotations' = RemoveAt(annotations, r)]_vars

\* ---------------------------------------------------------------------------
\* C21: a shift+left (shift+right) key press moves x_min and x_max of every
\* active annotation down (up) by exactly ARROW_STEP_SIZE samples, whatever
\* its neighbors are, and leaves the annotations that are not active, the
\* number of annotations, the viewport and the GUI state as they were.
C21_KeyboardNudge ==
    [][\A key \in {"shift+left", "shift+right"} :
          on_key_press(key) =>
             LET step == IF key = "shift+left"
                         THEN -ARROW_STEP_SIZE * Unit ELSE ARROW_STEP_SIZE * Unit
             IN  /\ Len(annotations') = Len(annotations)
                 /\ \A i \in Indices :
                       IF annotations[i].active
                       THEN /\ annotations'[i].x_min = annotations[i].x_min + step
                            /\ annotations'[i].x_max = annotations[i].x_max + step
                       ELSE annotations'[i] = annotations[i]
                 /\ view' = view
                 /\ state' = state]_vars

\* the active annotation [4000, 8000] has been nudged left by 50 samples into
\* its neighbor [2000, 4000]
C21_Witness ==
    /\ nudges = 1
    /\ Len(annotations) = 2
    /\ Bounds(annotations) =
          << <<Sample(2000), Sample(4000)>>, <<Sample(3950), Sample(7950)>> >>
    /\ annotations[2].active

\* ---------------------------------------------------------------------------
\* C22: the export produced when the session ends has one entry
\* (x_min, x_max, label) for every annotation in the collection, in ascending
\* order of x_min.
C22_ExportListsEveryAnnotation ==
    LET sorted == sort_areas(annotations)
    IN  annotate.labels =
           [i \in 1..Len(sorted) |->
              <<sorted[i].x_min, sorted[i].x_max, label(sorted[i])>>]

\* ---------------------------------------------------------------------------
\* C23: while a gesture is in progress (NEW_AREA, MOVING_EDGE or MOVING_AREA)
\* no press, scroll or pointer move deactivates an annotation: every
\* annotation that is active stays active until a button is released.
C23_DragTargetStaysActive ==
    [][(/\ state \in {"NEW_AREA", "MOVING_EDGE", "MOVING_AREA"}
        /\ mouse_left_down => mouse_left_down'
        /\ mouse_right_down => mouse_right_down'
        /\ Len(annotations') = Len(annotations)
        /\ Press \/ Scroll \/ Move)
         => \A i \in ActiveIndices : annotations'[i].active]_vars

\* ---------------------------------------------------------------------------
\* C24: in every reachable state whose GUI state is IDLE, MOVING_AREA or
\* PANNING no annotation has left_edge_active or right_edge_active set.
C24_EdgeFlagsConfined ==
    state \in {"IDLE", "MOVING_AREA", "PANNING"} =>
       \A i \in Indices : /\ ~annotations[i].left_edge_active
                          /\ ~annotations[i].right_edge_active

\* an annotation whose right edge was armed while it was drawn is now being
\* moved by its body, with no edge armed
C24_Witness ==
    /\ state = "MOVING_AREA"
    /\ presses = 2
    /\ Len(annotations) = 1
    /\ annotations[1].active
    /\ annotations[1].x_min < annotations[1].x_max
    /\ ~annotations[1].left_edge_active
    /\ ~annotations[1].right_edge_active

\* ---------------------------------------------------------------------------
\* C25: in every reachable state whose GUI state is IDLE the annotation list
\* is in ascending order of x_min.
C25_SortedWhenIdle ==
    state = "IDLE" =>
       \A i \in 1..(Len(annotations) - 1) :
          annotations[i].x_min <= annotations[i + 1].x_min

\* ---------------------------------------------------------------------------
\* C26: in every reachable state every annotation's x_min and x_max lie
\* within [data_x_min, data_x_max].
C26_AnnotationsInsideSignal ==
    \A i \in Indices :
       /\ data_x_min <= annotations[i].x_min
       /\ annotations[i].x_min <= data_x_max
       /\ data_x_min <= annotations[i].x_max
       /\ annotations[i].x_max <= data_x_max

\* ---------------------------------------------------------------------------
\* C27: pointer-move, scroll and key-press events never change the GUI state,
\* and a press that arrives while the state is not IDLE leaves it unchanged;
\* so the state leaves IDLE only by a press and returns to IDLE only by a
\* release.
C27_OnlyPressAndReleaseChangeState ==
    [][/\ state' # state => ~(Move \/ Scroll \/ KeyPress)
       /\ (state # "IDLE" /\ state' # state) => ~PressStep
       /\ (state = "IDLE" /\ state' # "IDLE") => presses' = presses + 1
       /\ (state # "IDLE" /\ state' = "IDLE") => ReleaseStep]_vars

\* the primary button was pressed while a pan was in progress, and the pan
\* is still in progress
C27_Witness ==
    /\ state = "PANNING"
    /\ presses = 2
    /\ mouse_left_down
    /\ mouse_right_down

\* ---------------------------------------------------------------------------
\* C28: a pointer move in PANNING, with or without a coordinate, changes at
\* most the viewport and the hover flags: the number of annotations and every
\* annotation's x_min, x_max, active, selected and edge-armed flags stay as
\* they were.
C28_PanningKeepsAnnotations ==
    [][(state = "PANNING" /\ MoveFrame /\ Move) =>
         /\ Len(annotations') = Len(annotations)
         /\ \A i \in Indices :
               /\ annotations'[i].x_min = annotations[i].x_min
               /\ annotations'[i].x_max = annotations[i].x_max
               /\ annotations'[i].active = annotations[i].active
               /\ annotations'[i].selected = annotations[i].selected
               /\ annotations'[i].left_edge_active = annotations[i].left_edge_active
               /\ annotations'[i].right_edge_active = annotations[i].right_edge_active]_vars

\* a pan has shifted a zoomed window by 2000 samples over an annotation
C28_Witness ==
    /\ state = "PANNING"
    /\ scrolls = 1
    /\ panning_mouse_x = Sample(4000)
    /\ view.x0 = Sample(2600)
    /\ Bounds(annotations) = << <<Sample(2000), Sample(8000)>> >>

\* ---------------------------------------------------------------------------
\* C29: in every reachable state every annotation in the collection has
\* selected = active.
C29_SelectedIffActive ==
    \A i \in Indices : annotations[i].selected = annotations[i].active

\* the annotation drawn first was deselected by the press that drew the
\* second one, which is active and selected
C29_Witness ==
    /\ Len(annotations) = 2
    /\ presses = 2
    /\ ~annotations[1].active /\ ~annotations[1].selected
    /\ annotations[1].x_min < annotations[1].x_max
    /\ annotations[2].active /\ annotations[2].selected

====
